---- MODULE Spec2Model ----
(***************************************************************************)
(* Model of the video platform's post-upload pipeline:                     *)
(*   - processVideo (backend/checkVideos.js, two copies of the function),  *)
(*     with downloadVideo and analyzeSensitivity as it awaits them,        *)
(*   - mockAIAnalysis (backend/src/services/sensitivityAnalyzer.js, three  *)
(*     copies),                                                            *)
(*   - the upload route (backend/src/routes/videos.js),                    *)
(*   - the Dashboard socket handlers (frontend Dashboard.jsx),             *)
(*   - the list, get, stream and delete routes behind authenticate and     *)
(*     checkRole (backend/src/routes/videos.js, middleware/auth.js).       *)
(*                                                                         *)
(* One action is one stretch of JavaScript that runs without suspension:   *)
(* from the resumption after an `await` to the next `await`.  A database   *)
(* write and the continuation that follows it are one action.              *)
(***************************************************************************)
EXTENDS Integers, Sequences, FiniteSets, TLC

\* ------------------------------------------------------------------ bounds
MaxVideos == 1
MaxCalls == 1
MaxFrames == 7
MaxRunFrames == 1
MaxRequests == 1

\* --------------------------------------------------------------- constants
Users == {"u1", "u2"}
\* The accounts of the User collection: the uploaders and one viewer who
\* shares u1's tenant.
Accounts == Users \cup {"u3"}
TenantOf == [u \in Accounts |-> IF u = "u2" THEN "t2" ELSE "t1"]
Role == [u \in Accounts |->
            IF u = "u1" THEN "editor" ELSE IF u = "u2" THEN "admin"
            ELSE "viewer"]
\* Identifier 0 is a record from before the modelled window, 1.. are the
\* identifiers the modelled uploads receive.
ArchivedId == 0
VideoIds == 0..MaxVideos
RunIds == 1..(MaxVideos + MaxCalls)
RemotePath == "http://media/v.mp4"
LocalPath == "uploads/v.mp4"
Paths == {RemotePath, LocalPath}
Durations == {1, 7}
ProcCopies == {1, 2}
AnalyzerCopies == {1, 2, 3}
NoRecord == [absent |-> TRUE]
NoDoc == [absent |-> TRUE]
NoResult == [status |-> "none", reason |-> "", confidence |-> 0,
             flaggedFrames |-> 0, totalFrames |-> 0]

VARIABLES
    procCopy,    \* which copy of processVideo is deployed
    store,       \* the Video collection: id -> record or NoRecord
    media,       \* id -> the media stored at the record's path exists
                 \* (the local file, or the asset on the media host)
    tempFile,    \* id -> temp/<id>.mp4 exists
    nextId,      \* next _id the collection hands out
    runs,        \* invocation slot -> state of that processVideo call
    nextRun,     \* next free invocation slot
    published,   \* invocation slot -> events it has emitted, in order
    response,    \* the last HTTP response an endpoint sent
    connected,   \* users whose Dashboard has its socket listeners registered
    inbox,       \* user -> events delivered to that user's socket listeners
    dash,        \* user -> the Dashboard's `videos` state (id -> entry)
    frames,      \* classifier input: frame verdicts in index order
    analyzerCopy,\* which copy of mockAIAnalysis is applied to `frames`
    result,      \* classifier output for `frames`
    served,      \* number of requests the router has answered, uploads
                 \* that reached their handler aside
    frameFiles   \* id -> temp-frames/ holds a frame file <id>-NNN.png

vars == <<procCopy, store, media, tempFile, nextId, runs, nextRun, published,
          response, connected, inbox, dash, frames, analyzerCopy, result,
          served, frameFiles>>

\* ------------------------------------------------------------- classifier
\* A frame verdict as analyzeFrame returns it; confidence in hundredths.
SafeFrame == [flagged |-> FALSE, reason |-> "", confidence |-> 90]
FlagA == [flagged |-> TRUE, reason |-> "Violence detected", confidence |-> 80]
FlagB == [flagged |-> TRUE, reason |-> "Adult content", confidence |-> 90]
Verdicts == {SafeFrame, FlagA, FlagB}

Max(a, b) == IF a >= b THEN a ELSE b

\* The loop of mockAIAnalysis: the flagged verdicts, in index order.
RECURSIVE FlaggedOf(_)
FlaggedOf(fs) ==
    IF fs = <<>> THEN <<>>
    ELSE IF Head(fs).flagged THEN <<Head(fs)>> \o FlaggedOf(Tail(fs))
         ELSE FlaggedOf(Tail(fs))

\* safeScore: the confidences of the verdicts that are not flagged, summed.
RECURSIVE SafeScore(_)
SafeScore(fs) ==
    IF fs = <<>> THEN 0
    ELSE (IF Head(fs).flagged THEN 0 ELSE Head(fs).confidence)
         + SafeScore(Tail(fs))

\* Math.max(...flagged.map(f => f.confidence))
RECURSIVE MaxConfidence(_)
MaxConfidence(fl) ==
    IF fl = <<>> THEN 0 ELSE Max(Head(fl).confidence, MaxConfidence(Tail(fl)))

\* Mutant of RatioOver: any flagged frame flags the video.
RatioOverAny(c, f, n) == f > 0

\* flagRatio > 0.15, with flagRatio = f / Math.max(n, 1) (copies 1 and 3) or
\* f / n (copy 2, where 0/0 is NaN and NaN > 0.15 is false).  The quotient of
\* two small integers compared with 0.15 is decided exactly by 100 f > 15 n.
RatioOver(c, f, n) ==
    IF c = 2
    THEN IF n = 0 THEN FALSE ELSE 100 * f > 15 * n
    ELSE 100 * f > 15 * Max(n, 1)

\* Mutant of mockAIAnalysis: the reason reported is that of the last flagged
\* frame.
mockAIAnalysisLastReason(c, fs) ==
    LET flagged == FlaggedOf(fs) IN
    IF RatioOver(c, Len(flagged), Len(fs))
    THEN [status |-> "flagged",
          reason |-> IF flagged # <<>> THEN flagged[Len(flagged)].reason
                     ELSE "Sensitive content detected",
          confidence |-> MaxConfidence(flagged),
          flaggedFrames |-> Len(flagged), totalFrames |-> Len(fs)]
    ELSE [status |-> "safe", reason |-> "",
          confidence |-> SafeScore(fs) \div Max(Len(fs) - Len(flagged), 1),
          flaggedFrames |-> Len(flagged), totalFrames |-> Len(fs)]

mockAIAnalysis(c, fs) ==
    LET flagged == FlaggedOf(fs) IN
    IF RatioOver(c, Len(flagged), Len(fs))
    THEN [status |-> "flagged",
          reason |-> IF flagged # <<>> THEN flagged[1].reason
                     ELSE "Sensitive content detected",
          confidence |-> MaxConfidence(flagged),
          flaggedFrames |-> Len(flagged), totalFrames |-> Len(fs)]
    ELSE [status |-> "safe", reason |-> "",
          confidence |-> SafeScore(fs) \div Max(Len(fs) - Len(flagged), 1),
          flaggedFrames |-> Len(flagged), totalFrames |-> Len(fs)]

\* Mutant of Verdict: a missing reason is replaced by a default text.
VerdictDefaultReason(res) ==
    [status |-> res.status,
     reason |-> IF res.reason = "" THEN "Sensitive content detected"
                ELSE res.reason]

\* processVideo reads only status and reason of the classifier's result.
Verdict(res) == [status |-> res.status, reason |-> res.reason]

FrameSeqs(n) == UNION {[1..k -> Verdicts] : k \in 0..n}

\* ------------------------------------------------------ mongoose documents
\* new Video({...}) in POST /upload, with the schema defaults for the rest.
NewVideo(u, p) ==
    [userId |-> u, tenantId |-> TenantOf[u], path |-> p,
     status |-> "processing", processingProgress |-> 0,
     sensitivityStatus |-> "pending", flagReason |-> "", duration |-> 0]

\* Video.findById: the in-memory document, no path modified yet.
LoadDoc(rec) ==
    [status |-> rec.status, processingProgress |-> rec.processingProgress,
     sensitivityStatus |-> rec.sensitivityStatus,
     flagReason |-> rec.flagReason, duration |-> rec.duration,
     modified |-> {}]

\* video.<f> = v: mongoose marks the path modified only when the value changes.
Assign(doc, f, v) ==
    IF doc[f] = v THEN doc
    ELSE [doc EXCEPT ![f] = v, !.modified = @ \cup {f}]

\* video.save() on an existing document: $set of the modified paths only.
SaveDelta(rec, doc) ==
    [f \in DOMAIN rec |-> IF f \in doc.modified THEN doc[f] ELSE rec[f]]

Saved(doc) == [doc EXCEPT !.modified = {}]

\* Mutant of FailedUpdate: the progress is not reset.
FailedUpdateStatusOnly(rec) == [rec EXCEPT !.status = "failed"]

\* Mutant of FailedUpdate: the failure handler also rolls the record back to
\* its defaults.
FailedUpdateRollsBack(rec) ==
    [rec EXCEPT !.status = "failed", !.processingProgress = 0,
                !.duration = 0, !.sensitivityStatus = "pending",
                !.flagReason = ""]

\* Video.findByIdAndUpdate(videoId, {status: 'failed', processingProgress: 0})
FailedUpdate(rec) ==
    [rec EXCEPT !.status = "failed", !.processingProgress = 0]

\* ------------------------------------------------------------------ events
\* Mutant of ProgressEvent: every progress event reports 0.
ProgressEventStale(c, u, vid, p) ==
    [kind |-> "progress", user |-> u, videoId |-> vid, progress |-> 0,
     status |-> "processing", sensitivityStatus |-> "", flagReason |-> "",
     duration |-> 0, message |-> ""]

\* io.emit(`video-progress-${userId}`, {videoId, progress[, status]}): copy 1
\* sends the status with the first progress event only, copy 2 with each.
ProgressEvent(c, u, vid, p) ==
    [kind |-> "progress", user |-> u, videoId |-> vid, progress |-> p,
     status |-> IF c = 2 \/ p = 0 THEN "processing" ELSE "",
     sensitivityStatus |-> "", flagReason |-> "", duration |-> 0,
     message |-> ""]

\* io.emit(`video-complete-${userId}`, {...})
CompleteEvent(u, vid, doc) ==
    [kind |-> "complete", user |-> u, videoId |-> vid, progress |-> -1,
     status |-> "completed", sensitivityStatus |-> doc.sensitivityStatus,
     flagReason |-> doc.flagReason, duration |-> doc.duration,
     message |-> ""]

\* io.emit(`video-failed-${userId}`, {videoId, message})
FailedEvent(c, u, vid, msg) ==
    [kind |-> "failed", user |-> u, videoId |-> vid, progress |-> -1,
     status |-> "", sensitivityStatus |-> "", flagReason |-> "",
     duration |-> 0,
     message |-> IF c = 2 THEN "Video processing failed"
                 ELSE IF msg # "" THEN msg ELSE "Processing failed"]

\* Mutant of Listens: the listeners are registered under names without the
\* user's id.
ListensAll(u, ev) == TRUE

\* socket.on(`video-<kind>-${user.id}`, ...): the event names a listener of
\* user u's Dashboard is registered for.
Listens(u, ev) == ev.user = u

\* io.emit broadcasts to every connected socket; a socket hands the event to
\* the listener registered under its name, if there is one.
Emit(r, ev) ==
    /\ published' = [published EXCEPT ![r] = Append(@, ev)]
    /\ inbox' = [u \in Users |->
                    IF u \in connected /\ Listens(u, ev)
                    THEN Append(inbox[u], ev) ELSE inbox[u]]

\* ------------------------------------------------------------ processVideo
IdleRun ==
    [pc |-> "idle", videoId |-> 0, userId |-> "", doc |-> NoDoc,
     isRemote |-> FALSE, res |-> Verdict(NoResult), error |-> "",
     threw |-> "none"]

\* The call processVideo(videoId, userId) up to its first await.
StartedRun(vid, u) == [IdleRun EXCEPT !.pc = "findById", !.videoId = vid, !.userId = u]

\* "Update DB: Start processing"
BeginProcessing(doc) ==
    Assign(Assign(doc, "status", "processing"), "processingProgress", 0)

\* Mutant of AfterProbe: the probe stage claims the 40 % checkpoint.
AfterProbeSkips(doc, d) ==
    Assign(Assign(doc, "duration", d), "processingProgress", 40)

\* After getVideoInfo: duration and the 20 % checkpoint.
AfterProbe(doc, d) ==
    Assign(Assign(doc, "duration", d), "processingProgress", 20)

\* After analyzeSensitivity: copy 1 stores the verdict with the 80 %
\* checkpoint, copy 2 stores only the progress.
AfterAnalysis(c, doc, res) ==
    IF c = 1
    THEN Assign(Assign(Assign(doc, "sensitivityStatus", res.status),
                       "flagReason", res.reason),
                "processingProgress", 80)
    ELSE Assign(doc, "processingProgress", 80)

\* Mutant of Finalize: the final progress value is not set.
FinalizeForgetsProgress(c, doc, res) ==
    IF c = 1
    THEN Assign(doc, "status", "completed")
    ELSE Assign(Assign(Assign(doc, "status", "completed"),
                       "sensitivityStatus", res.status),
                "flagReason", res.reason)

\* "Mark complete": copy 2 stores the verdict here.
Finalize(c, doc, res) ==
    IF c = 1
    THEN Assign(Assign(doc, "status", "completed"), "processingProgress", 100)
    ELSE Assign(Assign(Assign(Assign(doc, "status", "completed"),
                              "sensitivityStatus", res.status),
                       "flagReason", res.reason),
                "processingProgress", 100)

\* A throw inside the try block: control enters the catch block, which logs
\* and starts Video.findByIdAndUpdate.
Throw(r, msg, stage) ==
    runs' = [runs EXCEPT ![r].pc = "failUpdate", ![r].error = msg,
                         ![r].threw = stage]

Goto(r, pc, doc) == runs' = [runs EXCEPT ![r].pc = pc, ![r].doc = doc]

\* await Video.findById(videoId), getIO(), the local-file check, and the
\* start of the download or of the first save.
FindById(r) ==
    /\ runs[r].pc = "findById"
    /\ LET vid == runs[r].videoId
           rec == store[vid]
       IN IF rec = NoRecord
          THEN Throw(r, "Video not found", "lookup")
          ELSE IF rec.path # RemotePath /\ ~media[vid]
          THEN Throw(r, "Video file not found", "localfile")
          ELSE runs' = [runs EXCEPT
                  ![r].pc = IF rec.path = RemotePath THEN "download" ELSE "save0",
                  ![r].isRemote = (rec.path = RemotePath),
                  ![r].doc = IF rec.path = RemotePath THEN LoadDoc(rec)
                             ELSE BeginProcessing(LoadDoc(rec))]
    /\ UNCHANGED <<frameFiles, served, procCopy, store, media, tempFile, nextId, nextRun,
                   published, response, connected, inbox, dash, frames,
                   analyzerCopy, result>>

\* Mutant of Download: the first progress event is emitted before the
\* download is awaited.
DownloadAnnounced(r) ==
    /\ runs[r].pc = "download"
    /\ Emit(r, ProgressEvent(procCopy, runs[r].userId, runs[r].videoId, 0))
    /\ \E ok \in BOOLEAN :
          IF ok
          THEN /\ tempFile' = [tempFile EXCEPT ![runs[r].videoId] = TRUE]
               /\ Goto(r, "save0", BeginProcessing(runs[r].doc))
          ELSE /\ tempFile' = [tempFile EXCEPT ![runs[r].videoId] = TRUE]
               /\ Throw(r, "download failed", "download")
    /\ UNCHANGED <<frameFiles, served, procCopy, store, media, nextId, nextRun,
                   response, connected, dash, frames, analyzerCopy,
                   result>>

\* await downloadVideo(video.path, video._id), by its two settled outcomes.
\* fs.createWriteStream has opened temp/<id>.mp4 before the request is made,
\* so the file exists whether the promise resolves or rejects.
Download(r) ==
    /\ runs[r].pc = "download"
    /\ \E ok \in BOOLEAN :
          IF ok
          THEN /\ tempFile' = [tempFile EXCEPT ![runs[r].videoId] = TRUE]
               /\ Goto(r, "save0", BeginProcessing(runs[r].doc))
          ELSE /\ tempFile' = [tempFile EXCEPT ![runs[r].videoId] = TRUE]
               /\ Throw(r, "download failed", "download")
    /\ UNCHANGED <<frameFiles, served, procCopy, store, media, nextId, nextRun, published,
                   response, connected, inbox, dash, frames, analyzerCopy,
                   result>>

\* Mutant of CanSave: a run may write only while no other run on the same
\* identifier is between its first and its last write.
CanSaveExclusive(r) ==
    /\ store[runs[r].videoId] # NoRecord
    /\ \A q \in RunIds \ {r} :
          ~ (/\ runs[q].videoId = runs[r].videoId
             /\ runs[q].pc \in {"probe", "save20", "save40", "thumbnail",
                                "save60", "analyze", "save80", "save100"})

\* await video.save(): the write of the modified paths, or
\* DocumentNotFoundError when the record is gone.
CanSave(r) == store[runs[r].videoId] # NoRecord

\* Mutant of Persist: the save is not awaited and has not been written when
\* the code after it runs.
PersistSkipped(r) == store' = store

Persist(r) ==
    store' = [store EXCEPT ![runs[r].videoId] = SaveDelta(@, runs[r].doc)]

SaveFails(r) ==
    /\ Throw(r, "No document found", "save")
    /\ UNCHANGED <<store, published, inbox>>

\* The save of the 0 % checkpoint, its progress event, and the start of
\* getVideoInfo.
Checkpoint0(r) ==
    /\ runs[r].pc = "save0"
    /\ IF CanSave(r)
       THEN /\ Persist(r)
            /\ Emit(r, ProgressEvent(procCopy, runs[r].userId, runs[r].videoId, 0))
            /\ Goto(r, "probe", Saved(runs[r].doc))
       ELSE SaveFails(r)
    /\ UNCHANGED <<frameFiles, served, procCopy, media, tempFile, nextId, nextRun, response,
                   connected, dash, frames, analyzerCopy, result>>

\* await getVideoInfo(localPath): the metadata, or one of its two rejections.
Probe(r) ==
    /\ runs[r].pc = "probe"
    /\ \E o \in {"ok", "ffprobe error", "no video stream"}, d \in Durations :
          IF o = "ok"
          THEN Goto(r, "save20", AfterProbe(runs[r].doc, d))
          ELSE Throw(r, IF o = "ffprobe error" THEN "Failed to get video info"
                        ELSE "No video stream found", "probe")
    /\ UNCHANGED <<frameFiles, served, procCopy, store, media, tempFile, nextId, nextRun,
                   published, response, connected, inbox, dash, frames,
                   analyzerCopy, result>>

\* The save of the 20 % checkpoint, its event, and the skipped compression
\* step up to the next save.
Checkpoint20(r) ==
    /\ runs[r].pc = "save20"
    /\ IF CanSave(r)
       THEN /\ Persist(r)
            /\ Emit(r, ProgressEvent(procCopy, runs[r].userId, runs[r].videoId, 20))
            /\ Goto(r, "save40",
                    Assign(Saved(runs[r].doc), "processingProgress", 40))
       ELSE SaveFails(r)
    /\ UNCHANGED <<frameFiles, served, procCopy, media, tempFile, nextId, nextRun, response,
                   connected, dash, frames, analyzerCopy, result>>

\* The save of the 40 % checkpoint, its event, and the start of
\* extractThumbnail.
Checkpoint40(r) ==
    /\ runs[r].pc = "save40"
    /\ IF CanSave(r)
       THEN /\ Persist(r)
            /\ Emit(r, ProgressEvent(procCopy, runs[r].userId, runs[r].videoId, 40))
            /\ Goto(r, "thumbnail", Saved(runs[r].doc))
       ELSE SaveFails(r)
    /\ UNCHANGED <<frameFiles, served, procCopy, media, tempFile, nextId, nextRun, response,
                   connected, dash, frames, analyzerCopy, result>>

\* await extractThumbnail(localPath, video._id)
Thumbnail(r) ==
    /\ runs[r].pc = "thumbnail"
    /\ \E ok \in BOOLEAN :
          IF ok
          THEN Goto(r, "save60",
                    Assign(runs[r].doc, "processingProgress", 60))
          ELSE Throw(r, "ffmpeg thumbnail error", "thumbnail")
    /\ UNCHANGED <<frameFiles, served, procCopy, store, media, tempFile, nextId, nextRun,
                   published, response, connected, inbox, dash, frames,
                   analyzerCopy, result>>

\* The save of the 60 % checkpoint, its event, and the start of
\* analyzeSensitivity.
Checkpoint60(r) ==
    /\ runs[r].pc = "save60"
    /\ IF CanSave(r)
       THEN /\ Persist(r)
            /\ Emit(r, ProgressEvent(procCopy, runs[r].userId, runs[r].videoId, 60))
            /\ Goto(r, "analyze", Saved(runs[r].doc))
       ELSE SaveFails(r)
    /\ UNCHANGED <<frameFiles, served, procCopy, media, tempFile, nextId, nextRun, response,
                   connected, dash, frames, analyzerCopy, result>>

\* What analyzeSensitivity can resolve with: mockAIAnalysis (any copy) of
\* the frames ffmpeg extracted.
AnalysisResults ==
    {Verdict(mockAIAnalysis(c, fs)) :
        c \in AnalyzerCopies, fs \in FrameSeqs(MaxRunFrames)}

\* await analyzeSensitivity(video): ffmpeg writes the frame files; on its
\* error the promise rejects and the frames written so far stay; on its end
\* the frames of the item are listed, mockAIAnalysis runs, each listed file
\* is unlinked with a failing unlink ignored (`left`), and the promise
\* resolves.
Analyze(r) ==
    /\ runs[r].pc = "analyze"
    /\ \E ok \in BOOLEAN, left \in BOOLEAN, res \in AnalysisResults :
          IF ok
          THEN /\ frameFiles' = [frameFiles EXCEPT ![runs[r].videoId] = left]
               /\ runs' = [runs EXCEPT
                     ![r].pc = "save80",
                     ![r].res = res,
                     ![r].doc = AfterAnalysis(procCopy, runs[r].doc, res)]
          ELSE /\ frameFiles' = [frameFiles EXCEPT
                                    ![runs[r].videoId] = @ \/ left]
               /\ Throw(r, "Video analysis failed", "classifier")
    /\ UNCHANGED <<served, procCopy, store, media, tempFile, nextId, nextRun,
                   published, response, connected, inbox, dash, frames,
                   analyzerCopy, result>>

\* The save of the 80 % checkpoint, its event, and "mark complete" up to
\* the final save.
Checkpoint80(r) ==
    /\ runs[r].pc = "save80"
    /\ IF CanSave(r)
       THEN /\ Persist(r)
            /\ Emit(r, ProgressEvent(procCopy, runs[r].userId, runs[r].videoId, 80))
            /\ Goto(r, "save100",
                    Finalize(procCopy, Saved(runs[r].doc), runs[r].res))
       ELSE SaveFails(r)
    /\ UNCHANGED <<frameFiles, served, procCopy, media, tempFile, nextId, nextRun, response,
                   connected, dash, frames, analyzerCopy, result>>

\* Mutant of Checkpoint100: the downloaded file is not unlinked.
Checkpoint100KeepsTemp(r) ==
    /\ runs[r].pc = "save100"
    /\ IF CanSave(r)
       THEN /\ Persist(r)
            /\ Emit(r, CompleteEvent(runs[r].userId, runs[r].videoId, runs[r].doc))
            /\ Goto(r, "done", Saved(runs[r].doc))
       ELSE SaveFails(r)
    /\ UNCHANGED <<frameFiles, served, procCopy, media, tempFile, nextId,
                   nextRun, response, connected, dash, frames, analyzerCopy,
                   result>>

\* The final save, the completion event, and the cleanup of the downloaded
\* file: fs.unlinkSync is inside the try block, so its failure enters the
\* catch block after the completion event has been emitted.
Checkpoint100(r) ==
    /\ runs[r].pc = "save100"
    /\ IF CanSave(r)
       THEN /\ Persist(r)
            /\ Emit(r, CompleteEvent(runs[r].userId, runs[r].videoId, runs[r].doc))
            /\ IF runs[r].isRemote /\ tempFile[runs[r].videoId]
               THEN \E unlinked \in BOOLEAN :
                       IF unlinked
                       THEN /\ tempFile' = [tempFile EXCEPT ![runs[r].videoId] = FALSE]
                            /\ Goto(r, "done", Saved(runs[r].doc))
                       ELSE /\ UNCHANGED tempFile
                            /\ runs' = [runs EXCEPT
                                  ![r].pc = "failUpdate",
                                  ![r].doc = Saved(runs[r].doc),
                                  ![r].error = "unlink failed",
                                  ![r].threw = "cleanup"]
               ELSE /\ UNCHANGED tempFile
                    /\ Goto(r, "done", Saved(runs[r].doc))
       ELSE /\ SaveFails(r)
            /\ UNCHANGED tempFile
    /\ UNCHANGED <<frameFiles, served, procCopy, media, nextId, nextRun, response, connected,
                   dash, frames, analyzerCopy, result>>

\* Mutant of FailUpdate: the update of the catch block is an upsert.
FailUpdateUpserts(r) ==
    /\ runs[r].pc = "failUpdate"
    /\ store' = [store EXCEPT ![runs[r].videoId] =
                    IF @ = NoRecord
                    THEN FailedUpdate(NewVideo(runs[r].userId, RemotePath))
                    ELSE FailedUpdate(@)]
    /\ Emit(r, FailedEvent(procCopy, runs[r].userId, runs[r].videoId,
                           runs[r].error))
    /\ runs' = [runs EXCEPT ![r].pc = "done"]
    /\ UNCHANGED <<frameFiles, served, procCopy, media, tempFile, nextId, nextRun, response,
                   connected, dash, frames, analyzerCopy, result>>

\* The catch block: await Video.findByIdAndUpdate(...), then getIO() and the
\* failure event.
FailUpdate(r) ==
    /\ runs[r].pc = "failUpdate"
    /\ store' = [store EXCEPT ![runs[r].videoId] =
                    IF @ = NoRecord THEN @ ELSE FailedUpdate(@)]
    /\ Emit(r, FailedEvent(procCopy, runs[r].userId, runs[r].videoId,
                           runs[r].error))
    /\ runs' = [runs EXCEPT ![r].pc = "done"]
    /\ UNCHANGED <<frameFiles, served, procCopy, media, tempFile, nextId, nextRun, response,
                   connected, dash, frames, analyzerCopy, result>>

RunStep(r) ==
    \/ FindById(r)
    \/ Download(r)
    \/ Checkpoint0(r)
    \/ Probe(r)
    \/ Checkpoint20(r)
    \/ Checkpoint40(r)
    \/ Thumbnail(r)
    \/ Checkpoint60(r)
    \/ Analyze(r)
    \/ Checkpoint80(r)
    \/ Checkpoint100(r)
    \/ FailUpdate(r)

\* ------------------------------------------------------------- POST /upload
NoResponse == [route |-> "none", code |-> 0, videoId |-> 0]

\* The handler of POST /upload for an authenticated editor or admin u, by
\* its three outcomes.  Without a file: 400.
UploadNoFile ==
    /\ response' = [route |-> "upload", code |-> 400, videoId |-> 0]
    /\ UNCHANGED <<frameFiles, served, procCopy, store, media, tempFile, nextId, runs, nextRun,
                   published, connected, inbox, dash, frames, analyzerCopy,
                   result>>

\* video.save() rejects (title is required): 500 from the catch block.
UploadInvalid ==
    /\ response' = [route |-> "upload", code |-> 500, videoId |-> 0]
    /\ UNCHANGED <<frameFiles, served, procCopy, store, media, tempFile, nextId, runs, nextRun,
                   published, connected, inbox, dash, frames, analyzerCopy,
                   result>>

\* Mutant of Upload: processVideo is called before the record is saved.
UploadBeforeSave(u, p, onDisk) ==
    /\ nextId <= MaxVideos
    /\ runs' = [runs EXCEPT ![nextRun] = StartedRun(nextId, u)]
    /\ nextId' = nextId + 1
    /\ nextRun' = nextRun + 1
    /\ response' = [route |-> "upload", code |-> 201, videoId |-> nextId]
    /\ UNCHANGED <<frameFiles, served, procCopy, store, media, tempFile, published, connected,
                   inbox, dash, frames, analyzerCopy, result>>

\* The record is saved, processVideo is called without await, 201 is sent.
Upload(u, p, onDisk) ==
    /\ nextId <= MaxVideos
    /\ store' = [store EXCEPT ![nextId] = NewVideo(u, p)]
    /\ media' = [media EXCEPT ![nextId] = (p = RemotePath \/ onDisk)]
    /\ runs' = [runs EXCEPT ![nextRun] = StartedRun(nextId, u)]
    /\ nextId' = nextId + 1
    /\ nextRun' = nextRun + 1
    /\ response' = [route |-> "upload", code |-> 201, videoId |-> nextId]
    /\ UNCHANGED <<frameFiles, served, procCopy, tempFile, published, connected, inbox, dash,
                   frames, analyzerCopy, result>>

\* A direct call processVideo(videoId, userId) of the exported function, for
\* an identifier the collection has handed out or for one it never will.
ProcessVideoCall(vid, u) ==
    /\ nextRun - nextId < MaxCalls
    /\ vid < nextId
    /\ runs' = [runs EXCEPT ![nextRun] = StartedRun(vid, u)]
    /\ nextRun' = nextRun + 1
    /\ UNCHANGED <<frameFiles, served, procCopy, store, media, tempFile, nextId, published,
                   response, connected, inbox, dash, frames, analyzerCopy,
                   result>>

\* --------------------------------------------------------------- Dashboard
NoEntry == [absent |-> TRUE]
StatusFilters == {"all", "uploading", "processing", "completed", "failed"}
SensitivityFilters == {"all", "safe", "flagged", "pending"}

\* A record as GET / returns it (.select('-path')).
EntryOf(rec) ==
    [userId |-> rec.userId, tenantId |-> rec.tenantId,
     status |-> rec.status, processingProgress |-> rec.processingProgress,
     sensitivityStatus |-> rec.sensitivityStatus,
     flagReason |-> rec.flagReason, duration |-> rec.duration]

\* GET /: Video.find({userId, tenantId[, status][, sensitivityStatus]})
ListVideos(u, st, sens) ==
    [id \in VideoIds |->
        IF /\ store[id] # NoRecord
           /\ store[id].userId = u
           /\ store[id].tenantId = TenantOf[u]
           /\ (st = "all" \/ store[id].status = st)
           /\ (sens = "all" \/ store[id].sensitivityStatus = sens)
        THEN EntryOf(store[id]) ELSE NoEntry]

\* The three socket listeners of the Dashboard: prev.map(video => ...).
ApplyEvent(list, ev) ==
    [id \in VideoIds |->
        IF list[id] = NoEntry \/ id # ev.videoId THEN list[id]
        ELSE IF ev.kind = "progress"
        THEN [list[id] EXCEPT !.processingProgress = ev.progress]
        ELSE IF ev.kind = "complete"
        THEN [list[id] EXCEPT !.status = ev.status,
                              !.sensitivityStatus = ev.sensitivityStatus,
                              !.flagReason = ev.flagReason,
                              !.processingProgress = 100]
        ELSE [list[id] EXCEPT !.status = "failed", !.processingProgress = 0]]

\* The Dashboard's effect with socket and user present: listeners registered.
Connect(u) ==
    /\ u \notin connected
    /\ connected' = connected \cup {u}
    /\ UNCHANGED <<frameFiles, served, procCopy, store, media, tempFile, nextId, runs, nextRun,
                   published, response, inbox, dash, frames, analyzerCopy,
                   result>>

\* fetchVideos under the Dashboard's two filters:
\* setVideos(response.data.videos)
FetchVideos(u) ==
    /\ \E list \in {ListVideos(u, st, sens) :
                      st \in StatusFilters, sens \in SensitivityFilters} :
          dash' = [dash EXCEPT ![u] = list]
    /\ UNCHANGED <<frameFiles, served, procCopy, store, media, tempFile, nextId, runs, nextRun,
                   published, response, connected, inbox, frames,
                   analyzerCopy, result>>

\* One delivered event handled by the listener registered under its name.
HandleEvent(u) ==
    /\ inbox[u] # <<>>
    /\ dash' = [dash EXCEPT ![u] = ApplyEvent(@, Head(inbox[u]))]
    /\ inbox' = [inbox EXCEPT ![u] = Tail(@)]
    /\ UNCHANGED <<frameFiles, served, procCopy, store, media, tempFile, nextId, runs, nextRun,
                   published, response, connected, frames, analyzerCopy,
                   result>>

\* ------------------------------------------------------ the video endpoints
\* A JSON web token by what jwt.verify and User.findById make of it: whose
\* id it carries ("ghost": no such user) and whether it verifies.
NoToken == [sub |-> "", state |-> "absent"]
Tokens ==
    {[sub |-> a, state |-> "ok"] : a \in Accounts \cup {"ghost"}}
    \cup {[sub |-> "u1", state |-> "malformed"],
          [sub |-> "u1", state |-> "expired"],
          [sub |-> "u1", state |-> "inactive"]}

\* The Authorization header: absent, `Bearer <token>`, or another scheme.
NoHeader == [scheme |-> "none", token |-> NoToken]
Headers ==
    {NoHeader, [scheme |-> "Basic", token |-> NoToken]}
    \cup {[scheme |-> "Bearer", token |-> t] : t \in Tokens}

Credentials == [authorization : Headers, queryToken : Tokens \cup {NoToken}]

\* A visitor signed in as account a, the token in the Bearer header.
SignedIn ==
    {[authorization |-> [scheme |-> "Bearer",
                         token |-> [sub |-> a, state |-> "ok"]],
      queryToken |-> NoToken] : a \in Accounts}

\* What upload.single('video') and the form leave in req.file and req.body.
Files == {"none", "remote", "local", "localMissing"}

\* The requests of one route under credentials c; req.user is set by
\* authenticate.
Request(c, route, id, st, sens, file, title) ==
    [authorization |-> c.authorization, queryToken |-> c.queryToken,
     route |-> route, id |-> id, status |-> st, sensitivityStatus |-> sens,
     file |-> file, title |-> title, user |-> ""]

Requests(C) ==
    {Request(c, "upload", 0, "all", "all", f, t) :
        c \in C, f \in Files, t \in BOOLEAN}
    \cup {Request(c, "list", 0, st, sens, "none", FALSE) :
            c \in C, st \in StatusFilters, sens \in SensitivityFilters}
    \cup {Request(c, route, id, "all", "all", "none", FALSE) :
            c \in C, route \in {"get", "stream", "delete"}, id \in VideoIds}

\* Mutant of authenticate: the expiry of the token is not checked.
AuthenticateIgnoresExpiry(req) ==
    LET token == IF req.authorization.scheme = "Bearer"
                 THEN req.authorization.token
                 ELSE req.queryToken
    IN IF token = NoToken THEN [code |-> 401, user |-> ""]
       ELSE IF token.state = "malformed" THEN [code |-> 401, user |-> ""]
       ELSE IF token.state = "inactive" THEN [code |-> 500, user |-> ""]
       ELSE IF token.sub \notin Accounts THEN [code |-> 401, user |-> ""]
       ELSE [code |-> 0, user |-> token.sub]

\* authenticate: the token of a Bearer header, else of ?token=; 401 without
\* a token, for JsonWebTokenError, TokenExpiredError and an unknown user, 500
\* for any other error (jwt's NotBeforeError); code 0 stands for next().
authenticate(req) ==
    LET token == IF req.authorization.scheme = "Bearer"
                 THEN req.authorization.token
                 ELSE req.queryToken
    IN IF token = NoToken THEN [code |-> 401, user |-> ""]
       ELSE IF token.state = "malformed" THEN [code |-> 401, user |-> ""]
       ELSE IF token.state = "expired" THEN [code |-> 401, user |-> ""]
       ELSE IF token.state = "inactive" THEN [code |-> 500, user |-> ""]
       ELSE IF token.sub \notin Accounts THEN [code |-> 401, user |-> ""]
       ELSE [code |-> 0, user |-> token.sub]

\* checkRole(...roles): next() when the user's role is one of roles.
checkRole(roles, u) == Role[u] \in roles

NoVideos == [id \in VideoIds |-> NoEntry]

\* res.status(code).json(...) of a route other than the upload handler.
Respond(req, stage, code, videos, bytes) ==
    /\ served < MaxRequests
    /\ served' = served + 1
    /\ response' = [route |-> req.route, code |-> code, stage |-> stage,
                    req |-> req, videos |-> videos, bytes |-> bytes]

\* A response that ends the request with nothing else done.
Reject(req, stage, code) ==
    /\ Respond(req, stage, code, NoVideos, FALSE)
    /\ UNCHANGED <<frameFiles, procCopy, store, media, tempFile, nextId, runs, nextRun,
                   published, connected, inbox, dash, frames, analyzerCopy,
                   result>>

\* Mutant of FindOne: the query leaves out userId.
FindOneInTenant(req) ==
    IF /\ store[req.id] # NoRecord
       /\ store[req.id].tenantId = TenantOf[req.user]
    THEN store[req.id] ELSE NoRecord

\* Video.findOne({_id, userId: req.user._id, tenantId: req.user.tenantId})
FindOne(req) ==
    IF /\ store[req.id] # NoRecord
       /\ store[req.id].userId = req.user
       /\ store[req.id].tenantId = TenantOf[req.user]
    THEN store[req.id] ELSE NoRecord

\* GET /
GetVideos(req) ==
    /\ Respond(req, "handler", 200,
               ListVideos(req.user, req.status, req.sensitivityStatus), FALSE)
    /\ UNCHANGED <<frameFiles, procCopy, store, media, tempFile, nextId, runs, nextRun,
                   published, connected, inbox, dash, frames, analyzerCopy,
                   result>>

\* Mutant of GetVideo: reading a record that is still processing calls
\* processVideo for it again.
GetVideoRestarts(req) ==
    IF FindOne(req) = NoRecord
    THEN Reject(req, "handler", 404)
    ELSE /\ Respond(req, "handler", 200,
                    [id \in VideoIds |->
                        IF id = req.id THEN EntryOf(FindOne(req))
                        ELSE NoEntry], FALSE)
         /\ IF FindOne(req).status = "processing" /\ nextRun \in RunIds
            THEN /\ runs' = [runs EXCEPT
                                ![nextRun] = StartedRun(req.id, req.user)]
                 /\ nextRun' = nextRun + 1
            ELSE UNCHANGED <<runs, nextRun>>
         /\ UNCHANGED <<frameFiles, procCopy, store, media, tempFile, nextId, published,
                        connected, inbox, dash, frames, analyzerCopy, result>>

\* GET /:id
GetVideo(req) ==
    IF FindOne(req) = NoRecord
    THEN Reject(req, "handler", 404)
    ELSE /\ Respond(req, "handler", 200,
                    [id \in VideoIds |->
                        IF id = req.id THEN EntryOf(FindOne(req))
                        ELSE NoEntry], FALSE)
         /\ UNCHANGED <<frameFiles, procCopy, store, media, tempFile, nextId, runs,
                        nextRun, published, connected, inbox, dash, frames,
                        analyzerCopy, result>>

\* Mutant of Streamable: only a record still in processing is refused.
StreamableUnlessProcessing(rec) == rec.status # "processing"

\* video.status !== 'completed' answers 400.
Streamable(rec) == rec.status = "completed"

\* GET /:id/stream: 404 without the record, 400 unless completed; a remote
\* record is fetched from the media host and piped (404 when the host does
\* not have it, 500 when the fetch throws), a local one is read from disk
\* (404 when the file is missing) in full or for the requested range.
StreamVideo(req) ==
    LET video == FindOne(req) IN
    /\ IF video = NoRecord THEN Respond(req, "handler", 404, NoVideos, FALSE)
       ELSE IF ~Streamable(video)
       THEN Respond(req, "handler", 400, NoVideos, FALSE)
       ELSE IF video.path = RemotePath
       THEN IF media[req.id]
            THEN \E fetched \in BOOLEAN :
                    IF fetched
                    THEN Respond(req, "handler", 200, NoVideos, TRUE)
                    ELSE Respond(req, "handler", 500, NoVideos, FALSE)
            ELSE Respond(req, "handler", 404, NoVideos, FALSE)
       ELSE IF ~media[req.id]
       THEN Respond(req, "handler", 404, NoVideos, FALSE)
       ELSE \E range \in BOOLEAN :
               Respond(req, "handler", IF range THEN 206 ELSE 200,
                       NoVideos, TRUE)
    /\ UNCHANGED <<frameFiles, procCopy, store, media, tempFile, nextId, runs, nextRun,
                   published, connected, inbox, dash, frames, analyzerCopy,
                   result>>

\* fs.existsSync(video.path): a URL is not a path of the file system.
OnDisk(video, id) == video.path # RemotePath /\ media[id]

\* DELETE /:id: 404 without the record; the file at video.path is unlinked
\* when it exists on disk (a throw answers 500 with the record kept), then
\* Video.deleteOne and 200.
DeleteVideo(req) ==
    LET video == FindOne(req) IN
    /\ IF video = NoRecord
       THEN /\ Respond(req, "handler", 404, NoVideos, FALSE)
            /\ UNCHANGED <<store, media>>
       ELSE IF OnDisk(video, req.id)
       THEN \E unlinked \in BOOLEAN :
               IF unlinked
               THEN /\ media' = [media EXCEPT ![req.id] = FALSE]
                    /\ store' = [store EXCEPT ![req.id] = NoRecord]
                    /\ Respond(req, "handler", 200, NoVideos, FALSE)
               ELSE /\ Respond(req, "handler", 500, NoVideos, FALSE)
                    /\ UNCHANGED <<store, media>>
       ELSE /\ store' = [store EXCEPT ![req.id] = NoRecord]
            /\ Respond(req, "handler", 200, NoVideos, FALSE)
            /\ UNCHANGED media
    /\ UNCHANGED <<frameFiles, procCopy, tempFile, nextId, runs, nextRun, published,
                   connected, inbox, dash, frames, analyzerCopy, result>>

\* POST /upload behind its middleware, by what the request carries.
UploadVideo(req) ==
    IF req.file = "none" THEN UploadNoFile
    ELSE IF ~req.title THEN UploadInvalid
    ELSE Upload(req.user,
                IF req.file = "remote" THEN RemotePath ELSE LocalPath,
                req.file = "local")

\* authenticate has called next() and, on the two routes that declare it,
\* so has checkRole('editor', 'admin').
Admitted(req) ==
    /\ authenticate(req).code = 0
    /\ req.route \in {"upload", "delete"}
          => checkRole({"editor", "admin"}, authenticate(req).user)

\* The request as the handler receives it: req.user = the user found.
WithUser(req) == [req EXCEPT !.user = authenticate(req).user]

\* The router ends the request in authenticate (401, 500) or in checkRole
\* (403).
Refuse(req) ==
    /\ ~Admitted(req)
    /\ IF authenticate(req).code # 0
       THEN Reject(req, "authenticate", authenticate(req).code)
       ELSE Reject(WithUser(req), "checkRole", 403)

ServeUpload(req) ==
    /\ served < MaxRequests
    /\ req.route = "upload"
    /\ Admitted(req)
    /\ UploadVideo(WithUser(req))

ServeList(req) ==
    /\ req.route = "list"
    /\ Admitted(req)
    /\ GetVideos(WithUser(req))

ServeGet(req) ==
    /\ req.route = "get"
    /\ Admitted(req)
    /\ GetVideo(WithUser(req))

ServeStream(req) ==
    /\ req.route = "stream"
    /\ Admitted(req)
    /\ StreamVideo(WithUser(req))

ServeDelete(req) ==
    /\ req.route = "delete"
    /\ Admitted(req)
    /\ DeleteVideo(WithUser(req))

\* -------------------------------------------------- classifier on its own
Classify ==
    /\ result = NoResult
    /\ result' = mockAIAnalysis(analyzerCopy, frames)
    /\ UNCHANGED <<frameFiles, served, procCopy, store, media, tempFile, nextId, runs, nextRun,
                   published, response, connected, inbox, dash, frames,
                   analyzerCopy>>

\* ---------------------------------------------------------- specifications
InitSystem ==
    /\ procCopy \in ProcCopies
    /\ store = [id \in VideoIds |-> NoRecord]
    /\ media = [id \in VideoIds |-> FALSE]
    /\ tempFile = [id \in VideoIds |-> FALSE]
    /\ frameFiles = [id \in VideoIds |-> FALSE]
    /\ nextId = 1
    /\ runs = [r \in RunIds |-> IdleRun]
    /\ nextRun = 1
    /\ published = [r \in RunIds |-> <<>>]
    /\ response = NoResponse
    /\ connected = {}
    /\ inbox = [u \in Users |-> <<>>]
    /\ dash = [u \in Users |-> [id \in VideoIds |-> NoEntry]]
    /\ served = 0

Init ==
    /\ InitSystem
    /\ frames = <<>>
    /\ analyzerCopy = 1
    /\ result = NoResult

UploadAccepted ==
    \E u \in Users, p \in Paths :
        \E onDisk \in (IF p = LocalPath THEN BOOLEAN ELSE {FALSE}) :
            Upload(u, p, onDisk)

UploadRequest ==
    \/ UploadNoFile
    \/ UploadInvalid
    \/ UploadAccepted

Pipeline == \E r \in RunIds : RunStep(r)

\* The server as the routes drive it: every run is started by an upload.
Next ==
    \/ UploadRequest
    \/ Pipeline

Spec == Init /\ [][Next]_vars

\* processVideo called again for an identifier, beside the upload's own call.
DirectCall == \E vid \in VideoIds, u \in Users : ProcessVideoCall(vid, u)

NextRace ==
    \/ UploadRequest
    \/ DirectCall
    \/ Pipeline

SpecRace == Init /\ [][NextRace]_vars

\* The server together with the users' Dashboards.  One record is already
\* in the collection, left completed by a run that ended earlier.
ArchivedRecord(u) ==
    [NewVideo(u, RemotePath) EXCEPT
        !.status = "completed", !.processingProgress = 100,
        !.sensitivityStatus = "safe", !.duration = 7]

InitDash ==
    /\ procCopy \in ProcCopies
    /\ \E u \in Users :
          store = [id \in VideoIds |->
                      IF id = ArchivedId THEN ArchivedRecord(u) ELSE NoRecord]
    /\ media = [id \in VideoIds |-> id = ArchivedId]
    /\ tempFile = [id \in VideoIds |-> FALSE]
    /\ frameFiles = [id \in VideoIds |-> FALSE]
    /\ nextId = 1
    /\ runs = [r \in RunIds |-> IdleRun]
    /\ nextRun = 1
    /\ published = [r \in RunIds |-> <<>>]
    /\ response = NoResponse
    /\ connected = {}
    /\ inbox = [u \in Users |-> <<>>]
    /\ dash = [u \in Users |-> [id \in VideoIds |-> NoEntry]]
    /\ served = 0
    /\ frames = <<>>
    /\ analyzerCopy = 1
    /\ result = NoResult

DashboardStep ==
    \E u \in Users :
        \/ Connect(u)
        \/ HandleEvent(u)
        \/ FetchVideos(u)

NextDash ==
    \/ UploadAccepted
    \/ Pipeline
    \/ DashboardStep

SpecDash == InitDash /\ [][NextDash]_vars

\* mockAIAnalysis applied to every bounded sequence of frame verdicts.
InitClassifier ==
    /\ InitSystem
    /\ frames \in FrameSeqs(MaxFrames)
    /\ analyzerCopy \in AnalyzerCopies
    /\ result = NoResult

SpecClassifier == InitClassifier /\ [][Classify]_vars

\* The requests that may arrive, their credentials drawn from C.
Arriving(C) == IF served < MaxRequests THEN Requests(C) ELSE {}

\* One request through the router, by where it ends.
Router(C) ==
    \/ \E req \in Arriving(C) : Refuse(req)
    \/ \E req \in Arriving(C) : ServeUpload(req)
    \/ \E req \in Arriving(C) : ServeList(req)
    \/ \E req \in Arriving(C) : ServeGet(req)
    \/ \E req \in Arriving(C) : ServeStream(req)
    \/ \E req \in Arriving(C) : ServeDelete(req)

\* The endpoints called by signed-in visitors while the runs they started
\* proceed.
ApiRequest == Router(SignedIn)

NextApi ==
    \/ ApiRequest
    \/ Pipeline

SpecApi == InitDash /\ [][NextApi]_vars

\* The endpoints called with every kind of credentials.
AnyRequest == Router(Credentials)

SpecAuth == InitDash /\ [][AnyRequest]_vars

\* The server while the database is unreliable: an awaited write of a run may
\* reject instead of being applied.
SavePcs == {"save0", "save20", "save40", "save60", "save80", "save100"}

\* await video.save() rejects (connection lost, write error): control enters
\* the catch block with nothing written and no event emitted.
SaveRejects(r) ==
    /\ runs[r].pc \in SavePcs
    /\ Throw(r, "database write failed", "save")
    /\ UNCHANGED <<frameFiles, served, procCopy, store, media, tempFile, nextId, nextRun,
                   published, response, connected, inbox, dash, frames,
                   analyzerCopy, result>>

\* Mutant of FailUpdateRejects: the catch block has no try/catch of its own,
\* so the rejected update rejects the promise processVideo returned.
FailUpdateRejectsUncaught(r) ==
    /\ runs[r].pc = "failUpdate"
    /\ runs' = [runs EXCEPT ![r].pc = "rejected"]
    /\ UNCHANGED <<frameFiles, served, procCopy, store, media, tempFile,
                   nextId, nextRun, published, response, connected, inbox,
                   dash, frames, analyzerCopy, result>>

\* await Video.findByIdAndUpdate(...) rejects inside the catch block: the
\* inner catch logs, no event is emitted, and processVideo returns.
FailUpdateRejects(r) ==
    /\ runs[r].pc = "failUpdate"
    /\ runs' = [runs EXCEPT ![r].pc = "done"]
    /\ UNCHANGED <<frameFiles, served, procCopy, store, media, tempFile, nextId, nextRun,
                   published, response, connected, inbox, dash, frames,
                   analyzerCopy, result>>

Outage ==
    \E r \in RunIds :
        \/ SaveRejects(r)
        \/ FailUpdateRejects(r)

NextOutage ==
    \/ UploadRequest
    \/ Pipeline
    \/ Outage

SpecOutage == Init /\ [][NextOutage]_vars

\* ------------------------------------------------------------------ claims
Exists(id) == store[id] # NoRecord

IsPrefix(s, t) ==
    /\ Len(s) <= Len(t)
    /\ \A i \in 1..Len(s) : s[i] = t[i]

EventsOfKind(r, k) == SelectSeq(published[r], LAMBDA e : e.kind = k)

\* The percent values of the progress events a run has published, in order.
ProgressPercents(r) ==
    [i \in 1..Len(EventsOfKind(r, "progress")) |->
        EventsOfKind(r, "progress")[i].progress]

Stages == {"localfile", "download", "probe", "thumbnail", "classifier"}

\* C1: whenever a persisted record has status completed, its
\* processingProgress is 100 and its sensitivityStatus is safe or flagged.
C1_CompletedIsFull ==
    \A id \in VideoIds :
        (Exists(id) /\ store[id].status = "completed")
            => /\ store[id].processingProgress = 100
               /\ store[id].sensitivityStatus \in {"safe", "flagged"}

C1_Witness ==
    \E id \in VideoIds :
        /\ Exists(id)
        /\ store[id].status = "completed"
        /\ store[id].sensitivityStatus = "flagged"

C3_SixProgressEvents ==
    \A r \in RunIds :
        /\ IsPrefix(ProgressPercents(r), <<0, 20, 40, 60, 80, 100>>)
        /\ (runs[r].pc = "done" /\ runs[r].threw = "none")
              => ProgressPercents(r) = <<0, 20, 40, 60, 80, 100>>

\* C3 amended: the progress events of a run carry a prefix of 0, 20, 40, 60,
\* 80, each published once and in that order; a completion event is
\* published only after all five; and a run that ended without a throw has
\* published exactly these five progress events followed by one completion
\* event, which stands for the 100 checkpoint.
C3_FiveProgressThenComplete ==
    \A r \in RunIds :
        /\ IsPrefix(ProgressPercents(r), <<0, 20, 40, 60, 80>>)
        /\ EventsOfKind(r, "complete") # <<>>
              => ProgressPercents(r) = <<0, 20, 40, 60, 80>>
        /\ (runs[r].pc = "done" /\ runs[r].threw = "none")
              => /\ Len(published[r]) = 6
                 /\ ProgressPercents(r) = <<0, 20, 40, 60, 80>>
                 /\ published[r][6].kind = "complete"

C3_Witness ==
    \E r \in RunIds :
        /\ runs[r].pc = "done"
        /\ runs[r].threw = "none"
        /\ store[runs[r].videoId].processingProgress = 100

\* C4: once a record's persisted status is completed or failed, no step
\* changes its status or its processingProgress.
C4_TerminalIsFinal ==
    [][\A id \in VideoIds :
          (Exists(id) /\ store[id].status \in {"completed", "failed"})
             => /\ store'[id] # NoRecord
                /\ store'[id].status = store[id].status
                /\ store'[id].processingProgress = store[id].processingProgress
      ]_vars

\* C5: a record is first persisted with status uploading, and its status
\* becomes processing only by a step of its processVideo run.
C5_CreatedUploading ==
    [][\A id \in VideoIds :
          /\ (~Exists(id) /\ store'[id] # NoRecord)
                => store'[id].status = "uploading"
          /\ (Exists(id) /\ store[id].status = "uploading"
                /\ store'[id] # NoRecord /\ store'[id].status = "processing")
                => \E r \in RunIds :
                      runs[r].videoId = id /\ runs'[r] # runs[r]
      ]_vars

\* C6: whenever a persisted record has status failed, its processingProgress
\* is 0.
C6_FailedIsZero ==
    \A id \in VideoIds :
        (Exists(id) /\ store[id].status = "failed")
            => store[id].processingProgress = 0

\* C7: a run never publishes more than one terminal event, never both kinds;
\* ended after a stage threw it has published one failure event and no
\* completion event, and ended with no stage having thrown it has published
\* one completion event and no failure event.
C7_OneTerminalEvent ==
    \A r \in RunIds :
        LET completions == Len(EventsOfKind(r, "complete"))
            failures == Len(EventsOfKind(r, "failed"))
        IN /\ completions + failures <= 1
           /\ (runs[r].pc = "done" /\ runs[r].threw \in Stages)
                 => (failures = 1 /\ completions = 0)
           /\ (runs[r].pc = "done" /\ runs[r].threw \notin Stages)
                 => (completions = 1 /\ failures = 0)

\* C8: while a record's persisted status is processing its
\* processingProgress is one of 0, 20, 40, 60, 80, and from one persisted
\* state to the next with status processing it stays or rises by one
\* checkpoint, starting at 0.
C8_ProgressMonotone ==
    /\ [](\A id \in VideoIds :
            (Exists(id) /\ store[id].status = "processing")
               => store[id].processingProgress \in {0, 20, 40, 60, 80})
    /\ [][\A id \in VideoIds :
            /\ (~Exists(id) /\ store'[id] # NoRecord
                  /\ store'[id].status = "processing")
                  => store'[id].processingProgress = 0
            /\ (Exists(id) /\ store[id].status = "processing"
                  /\ store'[id] # NoRecord /\ store'[id].status = "processing")
                  => \/ store'[id].processingProgress = store[id].processingProgress
                     \/ store'[id].processingProgress
                           = store[id].processingProgress + 20
       ]_vars

C8_Witness ==
    \E id \in VideoIds :
        /\ Exists(id)
        /\ store[id].status = "processing"
        /\ store[id].processingProgress = 80

\* C9: the status mockAIAnalysis returns for a sequence of frame verdicts is
\* flagged exactly when 100 * (number of flagged verdicts) exceeds
\* 15 * (number of verdicts), and safe otherwise; no frames give safe.
FlaggedCount(fs) == Cardinality({i \in 1..Len(fs) : fs[i].flagged})

C9_StatusByRatio ==
    result # NoResult
        => /\ result.status \in {"safe", "flagged"}
           /\ result.status = "flagged"
                 <=> 100 * FlaggedCount(frames) > 15 * Len(frames)
           /\ Len(frames) = 0 => result.status = "safe"

C9_Witness ==
    /\ result # NoResult
    /\ Len(frames) = 7
    /\ FlaggedCount(frames) = 1
    /\ frames[7].flagged
    /\ result.status = "safe"

\* C10: every event a run has published is keyed by the run's userId and
\* carries the run's videoId; a Dashboard is handed only events keyed by its
\* own user and lists only its own user's records; and a Dashboard's list
\* changes only by its own fetch or by its handling of such an event.
C10_UserScopedEvents ==
    /\ [](/\ \A r \in RunIds : \A i \in 1..Len(published[r]) :
                /\ published[r][i].user = runs[r].userId
                /\ published[r][i].videoId = runs[r].videoId
          /\ \A v \in Users : \A i \in 1..Len(inbox[v]) :
                inbox[v][i].user = v
          /\ \A v \in Users : \A id \in VideoIds :
                dash[v][id] # NoEntry => (Exists(id) /\ store[id].userId = v))
    /\ [][\A v \in Users :
            \/ dash'[v] = dash[v]
            \/ \E st \in StatusFilters, sens \in SensitivityFilters :
                  dash'[v] = ListVideos(v, st, sens)
            \/ /\ inbox[v] # <<>>
               /\ Head(inbox[v]).user = v
               /\ dash'[v] = ApplyEvent(dash[v], Head(inbox[v]))
       ]_vars

C10_Witness ==
    \E u \in Users, v \in Users, r \in RunIds :
        /\ u # v
        /\ {u, v} \subseteq connected
        /\ runs[r].userId = u
        /\ runs[r].pc = "done"
        /\ EventsOfKind(r, "complete") # <<>>
        /\ dash[u][runs[r].videoId] # NoEntry
        /\ dash[u][runs[r].videoId].status = "completed"
        /\ inbox[v] = <<>>
        /\ dash[v][ArchivedId] = EntryOf(store[ArchivedId])
        /\ store[ArchivedId].userId = v

\* C11: a run is started only for a record that has been persisted, and
\* exactly one run per uploaded record; a request answered 201 has, in the
\* same step, persisted its record and started that one run, which has
\* reached no checkpoint yet; a request answered otherwise leaves the store
\* and the runs as they were.
RunsOn(id) == {r \in RunIds : runs[r].pc # "idle" /\ runs[r].videoId = id}

C11_UploadStartsOneRun ==
    /\ [](/\ \A r \in RunIds :
                runs[r].pc # "idle" => Exists(runs[r].videoId)
          /\ \A id \in 1..MaxVideos :
                Exists(id) => Cardinality(RunsOn(id)) = 1)
    /\ [][response' # response =>
            IF response'.code = 201
            THEN LET id == response'.videoId
                 IN /\ ~Exists(id)
                    /\ store'[id] # NoRecord
                    /\ \E r \in RunIds :
                          /\ runs[r].pc = "idle"
                          /\ runs'[r].pc = "findById"
                          /\ runs'[r].videoId = id
                          /\ runs'[r].userId = store'[id].userId
                          /\ published'[r] = <<>>
                          /\ \A q \in RunIds \ {r} : runs'[q] = runs[q]
            ELSE store' = store /\ runs' = runs
       ]_vars

C11_Witness ==
    /\ response.code = 201
    /\ Exists(response.videoId)
    /\ \E r \in RunIds :
          /\ runs[r].videoId = response.videoId
          /\ runs[r].pc = "findById"
          /\ published[r] = <<>>

\* C15: a persisted record has a non-empty flagReason only when its
\* sensitivityStatus is flagged, a flagged record has a non-empty
\* flagReason, and a step that changes a record's flagReason also sets its
\* sensitivityStatus.
C15_ReasonOnlyWhenFlagged ==
    /\ [](\A id \in VideoIds :
            Exists(id) =>
               (store[id].flagReason # ""
                   <=> store[id].sensitivityStatus = "flagged"))
    /\ [][\A id \in VideoIds :
            (Exists(id) /\ store'[id] # NoRecord
               /\ store'[id].flagReason # store[id].flagReason)
               => store'[id].sensitivityStatus # store[id].sensitivityStatus
       ]_vars

C15_Witness ==
    \E id \in VideoIds :
        /\ Exists(id)
        /\ store[id].status = "completed"
        /\ store[id].sensitivityStatus = "flagged"
        /\ store[id].flagReason = "Violence detected"

\* C17: a run that has returned on an existing record has not left the
\* record in status processing, and a run in which a persistence write threw
\* has left it in status failed.
C17_WriteFailureEndsFailed ==
    \A r \in RunIds :
        (runs[r].pc = "done" /\ Exists(runs[r].videoId))
            => /\ store[runs[r].videoId].status # "processing"
               /\ runs[r].threw = "save"
                     => store[runs[r].videoId].status = "failed"

\* C18: every failure event a run has published carries the run's videoId
\* and, as its message, the message of the error the run caught.
C18_FailureCarriesMessage ==
    \A r \in RunIds : \A i \in 1..Len(published[r]) :
        published[r][i].kind = "failed"
            => /\ published[r][i].videoId = runs[r].videoId
               /\ published[r][i].message = runs[r].error

\* C19: the step of the failure handler changes nothing of the persisted
\* record but status and processingProgress, and no other record; and a run
\* that has caught an error only goes on to its failure handler and ends:
\* it publishes no further progress or completion event.
C19_FailureKeepsFields ==
    [][\A r \in RunIds :
          /\ (runs[r].pc = "failUpdate" /\ runs'[r].pc = "done")
                => \A id \in VideoIds :
                      /\ Exists(id) <=> store'[id] # NoRecord
                      /\ Exists(id) =>
                            /\ store'[id].duration = store[id].duration
                            /\ store'[id].sensitivityStatus
                                  = store[id].sensitivityStatus
                            /\ store'[id].flagReason = store[id].flagReason
                            /\ store'[id].path = store[id].path
                            /\ id # runs[r].videoId => store'[id] = store[id]
          /\ runs[r].threw # "none"
                => /\ runs'[r].pc \in {"failUpdate", "done"}
                   /\ runs'[r].threw = runs[r].threw
                   /\ EventsOfKind(r, "progress")' = EventsOfKind(r, "progress")
                   /\ EventsOfKind(r, "complete")' = EventsOfKind(r, "complete")
      ]_vars

C19_Witness ==
    \E r \in RunIds :
        /\ runs[r].pc = "done"
        /\ runs[r].threw = "classifier"
        /\ Exists(runs[r].videoId)
        /\ store[runs[r].videoId].status = "failed"
        /\ store[runs[r].videoId].duration = 7

\* C20: a run is at one position at a time and moves through its stages in
\* the order download, probe, thumbnail, classifier, finalize; when a stage
\* starts, the checkpoints before it have been persisted and their progress
\* events published; and a progress event with percent p is published by a
\* step that leaves processingProgress = p persisted.
StageOrder ==
    <<"findById", "download", "save0", "probe", "save20", "save40",
      "thumbnail", "save60", "analyze", "save80", "save100", "done">>

PositionOf(pc) == CHOOSE i \in 1..Len(StageOrder) : StageOrder[i] = pc

CheckpointsBefore(pc) ==
    CASE pc \in {"probe", "save20"} -> <<0>>
      [] pc = "save40" -> <<0, 20>>
      [] pc \in {"thumbnail", "save60"} -> <<0, 20, 40>>
      [] pc \in {"analyze", "save80"} -> <<0, 20, 40, 60>>
      [] pc = "save100" -> <<0, 20, 40, 60, 80>>
      [] OTHER -> <<>>

C20_StagesInOrder ==
    /\ [](\A r \in RunIds :
            CheckpointsBefore(runs[r].pc) # <<>>
               => /\ ProgressPercents(r) = CheckpointsBefore(runs[r].pc)
                  /\ Exists(runs[r].videoId)
                  /\ store[runs[r].videoId].processingProgress
                        = ProgressPercents(r)[Len(ProgressPercents(r))])
    /\ [][\A r \in RunIds :
            /\ (runs'[r].pc # runs[r].pc
                  /\ runs[r].pc \notin {"idle", "failUpdate"}
                  /\ runs'[r].pc # "failUpdate")
                  => PositionOf(runs'[r].pc) > PositionOf(runs[r].pc)
            /\ published'[r] # published[r]
                  => LET e == published'[r][Len(published'[r])]
                     IN /\ published'[r] = Append(published[r], e)
                        /\ e.kind = "progress"
                              => /\ store'[runs[r].videoId] # NoRecord
                                 /\ store'[runs[r].videoId].processingProgress
                                       = e.progress
       ]_vars

C20_Witness ==
    \E r \in RunIds :
        /\ runs[r].pc = "analyze"
        /\ ProgressPercents(r) = <<0, 20, 40, 60>>
        /\ store[runs[r].videoId].processingProgress = 60

\* C12: a list response holds exactly the records that carry the caller's
\* userId and tenantId and match the filters given; and a get, stream or
\* delete request on a record that carries another userId or tenantId is
\* answered 404 with no bytes and leaves the records and the media as they
\* were.
OwnedBy(rec, u) ==
    rec # NoRecord /\ rec.userId = u /\ rec.tenantId = TenantOf[u]

Matches(rec, req) ==
    /\ req.status = "all" \/ rec.status = req.status
    /\ req.sensitivityStatus = "all"
          \/ rec.sensitivityStatus = req.sensitivityStatus

C12_TenantIsolation ==
    [][(served' # served /\ response'.stage = "handler") =>
          LET req == response'.req IN
          /\ req.route = "list" =>
                \A id \in VideoIds :
                   /\ response'.videos[id] # NoEntry
                         => /\ Exists(id)
                            /\ response'.videos[id].userId = req.user
                            /\ response'.videos[id].tenantId
                                  = TenantOf[req.user]
                            /\ response'.videos[id].status = store[id].status
                            /\ response'.videos[id].sensitivityStatus
                                  = store[id].sensitivityStatus
                            /\ Matches(store[id], req)
                   /\ (OwnedBy(store[id], req.user) /\ Matches(store[id], req))
                         => response'.videos[id] # NoEntry
          /\ (req.route \in {"get", "stream", "delete"}
                /\ Exists(req.id) /\ ~OwnedBy(store[req.id], req.user))
                => /\ response'.code = 404
                   /\ ~response'.bytes
                   /\ response'.videos = NoVideos
                   /\ store' = store
                   /\ media' = media
      ]_vars

C12_Witness ==
    /\ served = 1
    /\ response.route = "delete"
    /\ response.code = 404
    /\ Role[response.req.user] = "admin"
    /\ Exists(response.req.id)
    /\ store[response.req.id].userId = "u1"

\* C13: a stream request that is answered with media bytes found its
\* record, owned by the caller, in status completed; and a stream request
\* that finds the caller's record in status uploading, processing or failed
\* is answered 400 without bytes.
C13_StreamOnlyCompleted ==
    [][(served' # served /\ response'.stage = "handler"
          /\ response'.route = "stream") =>
          LET req == response'.req
              rec == store[req.id]
          IN /\ response'.bytes
                   => (OwnedBy(rec, req.user) /\ rec.status = "completed")
             /\ (OwnedBy(rec, req.user)
                   /\ rec.status \in {"uploading", "processing", "failed"})
                   => (response'.code = 400 /\ ~response'.bytes)
      ]_vars

C13_Witness ==
    /\ served = 1
    /\ response.route = "stream"
    /\ response.code = 400
    /\ \E r \in RunIds :
          /\ runs[r].videoId = response.req.id
          /\ runs[r].pc = "save100"
          /\ Exists(runs[r].videoId)
          /\ store[runs[r].videoId].status = "processing"
          /\ store[runs[r].videoId].processingProgress = 80

\* C14: a delete request answered 200 leaves neither the record nor the
\* media stored at the record's path.
C14_DeleteRemovesMedia ==
    [][(served' # served /\ response'.stage = "handler"
          /\ response'.route = "delete" /\ response'.code = 200) =>
          /\ store'[response'.req.id] = NoRecord
          /\ ~media'[response'.req.id]
      ]_vars

\* C16: a request reaches a handler only when the token it presents (that
\* of the Bearer header, else that of the query) verifies and names an
\* existing user, and reaches the delete handler only for an editor or
\* admin; any other token is answered 401 or 500 by authenticate; a request
\* without such a token, or of a viewer, changes no record, no media and
\* starts no run; a record is created only for an editor or admin and removed
\* only by the delete request of one.
Presented(req) ==
    IF req.authorization.scheme = "Bearer" THEN req.authorization.token
    ELSE req.queryToken

Verifies(t) == t.state = "ok" /\ t.sub \in Accounts

MidRunPcs ==
    {"probe", "save20", "save40", "thumbnail", "save60", "analyze", "save80",
     "save100"}

\* C21: processVideo enforces no mutual exclusion per job: a run at a save
\* whose record exists writes its modified paths and goes on, whatever the
\* position of any other run on the same identifier; so two runs on one
\* identifier are both between their first and last write at once and their
\* writes to the record alternate.
C21_NoMutualExclusion ==
    [][\A r \in RunIds :
          (/\ runs[r].pc \in SavePcs
           /\ Exists(runs[r].videoId)
           /\ runs'[r].pc # runs[r].pc)
             => /\ runs'[r].threw # "save"
                /\ store'[runs[r].videoId]
                      = SaveDelta(store[runs[r].videoId], runs[r].doc)
      ]_vars

\* Two runs on one record, both between their first and last write, whose
\* writes alternated: the record's duration is the second run's (its 20 %
\* save came after the first run's) and the record's progress is the first
\* run's 40 (its save came after the second run's 20 % save).
C21_Witness ==
    \E r1, r2 \in RunIds :
        /\ r1 # r2
        /\ runs[r1].pc \in MidRunPcs
        /\ runs[r2].pc \in MidRunPcs
        /\ runs[r1].videoId = runs[r2].videoId
        /\ ProgressPercents(r1) = <<0, 20, 40>>
        /\ ProgressPercents(r2) = <<0, 20>>
        /\ runs[r1].doc.duration # runs[r2].doc.duration
        /\ Exists(runs[r1].videoId)
        /\ store[runs[r1].videoId].duration = runs[r2].doc.duration
        /\ store[runs[r1].videoId].processingProgress = 40

\* The indices of the flagged verdicts of the classifier's input.
FlaggedAt == {i \in 1..Len(frames) : frames[i].flagged}

\* C23: the result of mockAIAnalysis reports in details.totalFrames the
\* number of frames and in details.flaggedFrames the number of flagged
\* verdicts; a flagged result carries the reason of the flagged frame of
\* lowest index and the greatest confidence among the flagged frames; a safe
\* result carries the empty reason.
C23_ResultDetails ==
    result # NoResult =>
        /\ result.totalFrames = Len(frames)
        /\ result.flaggedFrames = Cardinality(FlaggedAt)
        /\ result.status = "flagged" =>
              /\ FlaggedAt # {}
              /\ \E i \in FlaggedAt :
                    /\ \A j \in FlaggedAt : i <= j
                    /\ result.reason = frames[i].reason
              /\ \E i \in FlaggedAt : result.confidence = frames[i].confidence
              /\ \A i \in FlaggedAt : result.confidence >= frames[i].confidence
        /\ result.status = "safe" => result.reason = ""

\* A flagged result for frames whose first flagged verdict is neither the
\* first frame nor the most confident flagged one, and whose flagged
\* verdicts differ in their reasons.
C23_Witness ==
    /\ result # NoResult
    /\ result.status = "flagged"
    /\ Len(frames) >= 3
    /\ ~ frames[1].flagged
    /\ \E i, j \in FlaggedAt :
          /\ i < j
          /\ \A k \in FlaggedAt : i <= k
          /\ frames[i].reason # frames[j].reason
          /\ frames[i].confidence < frames[j].confidence
          /\ result.reason = frames[i].reason
          /\ result.confidence = frames[j].confidence

\* C26: across the endpoint calls (upload, list, get, stream, delete) at
\* most one run of processVideo is ever started for a record identifier: a
\* run is started only by an accepted upload, for the identifier of the
\* record that upload has just created, on which no run exists; the calls
\* the router answers (list, get, stream, delete, refusals) start none.
C26_OneRunPerRecord ==
    /\ [](\A id \in VideoIds : Cardinality(RunsOn(id)) <= 1)
    /\ [][/\ served' # served => runs' = runs
          /\ \A r \in RunIds :
                (runs[r].pc = "idle" /\ runs'[r].pc # "idle") =>
                    /\ response'.route = "upload"
                    /\ response'.code = 201
                    /\ runs'[r].videoId = response'.videoId
                    /\ ~Exists(runs'[r].videoId)
                    /\ store'[runs'[r].videoId] # NoRecord
                    /\ RunsOn(runs'[r].videoId) = {}
                    /\ \A q \in RunIds \ {r} : runs'[q] = runs[q]
      ]_vars

\* A record whose run is in progress has been read, streamed or deleted
\* through its endpoint, and the run started by its upload is the only one.
C26_Witness ==
    /\ served > 0
    /\ response.stage = "handler"
    /\ response.route \in {"get", "delete"}
    /\ response.code = 200
    /\ \E r \in RunIds :
          /\ runs[r].videoId = response.req.id
          /\ runs[r].pc \in MidRunPcs
          /\ RunsOn(response.req.id) = {r}

\* C28: once the delete endpoint has removed a record, no record with that
\* identifier exists in any later state: a run in progress on it does not
\* recreate it, neither by a checkpoint save nor by the update of its
\* failure handler.
C28_DeletedStaysDeleted ==
    [][\A id \in VideoIds :
          (id < nextId /\ ~Exists(id)) => store'[id] = NoRecord
      ]_vars

\* A record was deleted while its run was between two checkpoints; the run
\* then attempted a save, entered its failure handler, performed the update
\* and ended, and the record does not exist.
C28_Witness ==
    \E r \in RunIds :
        /\ runs[r].pc = "done"
        /\ runs[r].threw = "save"
        /\ Len(EventsOfKind(r, "progress")) >= 1
        /\ Len(EventsOfKind(r, "failed")) = 1
        /\ runs[r].videoId < nextId
        /\ ~Exists(runs[r].videoId)

InitSync ==
    /\ procCopy \in ProcCopies
    /\ \E u \in Users, p \in Paths, st \in {"all", "completed"} :
          /\ store = [id \in VideoIds |->
                         IF id = ArchivedId THEN ArchivedRecord(u)
                         ELSE IF id = 1 THEN NewVideo(u, p)
                         ELSE NoRecord]
          /\ runs = [r \in RunIds |->
                        IF r = 1 THEN StartedRun(1, u) ELSE IdleRun]
          /\ connected = {u}
          /\ dash = [w \in Users |->
                        IF w = u THEN ListVideos(u, st, "all")
                        ELSE [id \in VideoIds |-> NoEntry]]
    /\ media = [id \in VideoIds |-> id <= 1]
    /\ tempFile = [id \in VideoIds |-> FALSE]
    /\ frameFiles = [id \in VideoIds |-> FALSE]
    /\ nextId = 2
    /\ nextRun = 2
    /\ published = [r \in RunIds |-> <<>>]
    /\ response = [route |-> "upload", code |-> 201, videoId |-> 1]
    /\ inbox = [u \in Users |-> <<>>]
    /\ served = 0
    /\ frames = <<>>
    /\ analyzerCopy = 1
    /\ result = NoResult

Listener == \E u \in Users : HandleEvent(u)

NextSync ==
    \/ Pipeline
    \/ Outage
    \/ Listener

SpecSync == InitSync /\ [][NextSync]_vars

\* The fields the Dashboard shows of a list entry or of a record.
Shown(e) ==
    [status |-> e.status, processingProgress |-> e.processingProgress,
     sensitivityStatus |-> e.sensitivityStatus, flagReason |-> e.flagReason]

\* C24: for a Dashboard whose list holds video v and that receives every
\* event of v's run in publication order, once the run has ended, has
\* published its terminal event and every event has been handled, the
\* entry's status, processingProgress, sensitivityStatus and flagReason equal
\* those of the persisted record; the handlers never add or remove list
\* entries, and an event for an identifier not in the list leaves the list
\* unchanged.
C24_DashboardMirrorsRecord ==
    /\ [](\A r \in RunIds, u \in Users :
            (/\ runs[r].pc = "done"
             /\ runs[r].userId = u
             /\ Len(EventsOfKind(r, "complete"))
                  + Len(EventsOfKind(r, "failed")) > 0
             /\ inbox[u] = <<>>
             /\ dash[u][runs[r].videoId] # NoEntry
             /\ Exists(runs[r].videoId))
                => Shown(dash[u][runs[r].videoId])
                      = Shown(store[runs[r].videoId]))
    /\ [][\A u \in Users :
            /\ \A id \in VideoIds :
                  (dash'[u][id] = NoEntry) <=> (dash[u][id] = NoEntry)
            /\ (/\ inbox[u] # <<>>
                /\ inbox'[u] = Tail(inbox[u])
                /\ dash[u][Head(inbox[u]).videoId] = NoEntry)
                  => dash'[u] = dash[u]
      ]_vars

\* A run on a remote item whose download has succeeded: it went past the
\* download, or it threw at a later point.
Downloaded(r) ==
    /\ runs[r].isRemote
    /\ \/ runs[r].pc \in SavePcs \cup {"probe", "thumbnail", "analyze"}
       \/ /\ runs[r].pc \in {"failUpdate", "done"}
          /\ runs[r].threw \notin {"lookup", "localfile", "download"}

\* The temporary file of the claim, without its sentence on frame files:
\* for a remote item the downloaded file exists from the end of the download
\* up to the step that publishes the completion event, is gone when a
\* successful run has ended, and after a run that failed following a
\* successful download it exists and no later step removes it.
TempFileLifetime ==
    /\ [](\A r \in RunIds :
            Downloaded(r) =>
                IF runs[r].pc = "done" /\ runs[r].threw = "none"
                THEN /\ ~tempFile[runs[r].videoId]
                     /\ Len(EventsOfKind(r, "complete")) = 1
                ELSE tempFile[runs[r].videoId])
    /\ [][\A r \in RunIds :
            (/\ Downloaded(r)
             /\ runs[r].pc = "save100"
             /\ ~tempFile'[runs[r].videoId])
                => Len(EventsOfKind(r, "complete"))' = 1
      ]_vars

\* C22 as stated: the temporary file as above, and the frame files extracted
\* for the item are deleted before the classifier returns.
C22_TempFilesRemoved ==
    /\ TempFileLifetime
    /\ [][\A r \in RunIds :
            (runs[r].pc = "analyze" /\ runs'[r].pc = "save80")
                => ~frameFiles'[runs[r].videoId]
      ]_vars

\* The positions of a run at which analyzeSensitivity has been awaited.
Classified(r) ==
    /\ Len(ProgressPercents(r)) >= 4
    /\ runs[r].pc \in {"save80", "save100", "failUpdate", "done"}

\* C22, amended: the temporary file as above; the classifier unlinks each
\* frame file of the item before it resolves but ignores an unlink that
\* fails, so a frame file exists only for an item whose classifier has been
\* awaited, and only the classifier's own step creates or removes it.
C22_TempFileLifetimeFramesBestEffort ==
    /\ TempFileLifetime
    /\ [](\A id \in VideoIds :
            frameFiles[id] => \E r \in RunsOn(id) : Classified(r))
    /\ [][\A id \in VideoIds :
            frameFiles'[id] # frameFiles[id] =>
                \E r \in RunsOn(id) :
                    /\ runs[r].pc = "analyze"
                    /\ runs'[r].pc \in {"save80", "failUpdate"}
      ]_vars

\* A successful run on a remote item has ended: its completion event is
\* published and its temporary file is gone, while a frame file whose unlink
\* failed is still there.
C22_Witness ==
    \E r \in RunIds :
        /\ runs[r].isRemote
        /\ runs[r].pc = "done"
        /\ runs[r].threw = "none"
        /\ Len(EventsOfKind(r, "complete")) = 1
        /\ ~tempFile[runs[r].videoId]
        /\ frameFiles[runs[r].videoId]

\* ------------------------------------------------ downloadVideo step by step
\* downloadVideo up to its await: the write stream on temp/<id>.mp4 is
\* created, then `await axios({url, responseType: 'stream'})` either rejects
\* (the async function's promise rejects, processVideo enters its catch
\* block) or yields the response, whose body is piped into the write stream;
\* the promise returned listens to the writer's 'finish' and 'error' only.
DownloadRequest(r) ==
    /\ runs[r].pc = "download"
    /\ tempFile' = [tempFile EXCEPT ![runs[r].videoId] = TRUE]
    /\ \E ok \in BOOLEAN :
          IF ok
          THEN runs' = [runs EXCEPT ![r].pc = "transfer"]
          ELSE Throw(r, "download failed", "download")
    /\ UNCHANGED <<frameFiles, served, procCopy, store, media, nextId, nextRun,
                   published, response, connected, inbox, dash, frames,
                   analyzerCopy, result>>

\* The ways the transfer ends.  The writer emits 'finish': resolve(tempPath).
\* The writer emits 'error': reject(err).  The response stream fails
\* part-way: pipe() unpipes the writer without ending it and forwards no
\* error, so the writer emits neither event and the promise is never
\* settled; processVideo stays at its await.
Transfer(r) ==
    /\ runs[r].pc = "transfer"
    /\ \E end \in {"finish", "write error", "response error"} :
          IF end = "finish"
          THEN Goto(r, "save0", BeginProcessing(runs[r].doc))
          ELSE IF end = "write error"
          THEN Throw(r, "write failed", "download")
          ELSE runs' = [runs EXCEPT ![r].pc = "suspended"]
    /\ UNCHANGED <<frameFiles, served, procCopy, store, media, tempFile,
                   nextId, nextRun, published, response, connected, inbox,
                   dash, frames, analyzerCopy, result>>

\* processVideo with downloadVideo taken step by step.
RunStepDownload(r) ==
    \/ FindById(r)
    \/ DownloadRequest(r)
    \/ Transfer(r)
    \/ Checkpoint0(r)
    \/ Probe(r)
    \/ Checkpoint20(r)
    \/ Checkpoint40(r)
    \/ Thumbnail(r)
    \/ Checkpoint60(r)
    \/ Analyze(r)
    \/ Checkpoint80(r)
    \/ Checkpoint100(r)
    \/ FailUpdate(r)

PipelineDownload == \E r \in RunIds : RunStepDownload(r)

NextDownload ==
    \/ UploadRequest
    \/ PipelineDownload

SpecDownload == Init /\ [][NextDownload]_vars

\* C30: the promise returned by downloadVideo settles when the transfer
\* ends: a step that ends the request or the transfer either resolves the
\* promise (the run goes on to its first checkpoint) or rejects it (the run
\* enters its catch block), whether the write finished, the HTTP request
\* failed, the response stream failed part-way or the file write failed; the
\* run is never left at the await of the download.
C30_DownloadSettles ==
    [][\A r \in RunIds :
          (runs[r].pc \in {"download", "transfer"} /\ runs'[r] # runs[r]) =>
              \/ runs[r].pc = "download" /\ runs'[r].pc = "transfer"
              \/ runs'[r].pc = "save0"
              \/ runs'[r].pc = "failUpdate" /\ runs'[r].threw = "download"
      ]_vars

\* ------------------------------------------------------- runs under fairness
\* Every await of a run is eventually resumed: the awaited call succeeds or
\* signals its error, a database write included.
RunProgress(r) ==
    \/ RunStep(r)
    \/ SaveRejects(r)
    \/ FailUpdateRejects(r)

Fairness == \A r \in RunIds : WF_vars(RunProgress(r))

SpecFair == Init /\ [][NextOutage]_vars /\ Fairness

\* The run r has brought its record to a terminal status and has published
\* a terminal event.
Terminated(r) ==
    /\ Exists(runs[r].videoId)
    /\ store[runs[r].videoId].status \in {"completed", "failed"}
    /\ Len(EventsOfKind(r, "complete")) + Len(EventsOfKind(r, "failed")) > 0

\* C25: under fairness, with every external call (download, probe,
\* thumbnail, frame extraction, persistence write) eventually succeeding or
\* signalling an error, every started run of processVideo on an existing
\* record eventually reaches a state in which the persisted status is
\* completed or failed and a terminal event has been published.
C25_RunsTerminate ==
    \A r \in RunIds :
        (runs[r].pc # "idle" /\ Exists(runs[r].videoId)) ~> Terminated(r)

\* ------------------------------------------- the socket handle never set
\* getIO() throws 'Socket.io not initialized' while initSocket has not run.
\* In the try block it is called right after the record is found: control
\* enters the catch block.
NoSocketAtStart(r) ==
    /\ runs[r].pc = "findById"
    /\ store[runs[r].videoId] # NoRecord
    /\ Throw(r, "Socket.io not initialized", "notifier")
    /\ UNCHANGED <<frameFiles, served, procCopy, store, media, tempFile,
                   nextId, nextRun, published, response, connected, inbox,
                   dash, frames, analyzerCopy, result>>

\* In the catch block it is called after the awaited update, inside the
\* inner try: the update is applied, the inner catch logs, no event is
\* emitted, and processVideo returns.
NoSocketInHandler(r) ==
    /\ runs[r].pc = "failUpdate"
    /\ store' = [store EXCEPT ![runs[r].videoId] =
                    IF @ = NoRecord THEN @ ELSE FailedUpdate(@)]
    /\ runs' = [runs EXCEPT ![r].pc = "done"]
    /\ UNCHANGED <<frameFiles, served, procCopy, media, tempFile, nextId,
                   nextRun, published, response, connected, inbox, dash,
                   frames, analyzerCopy, result>>

SocketFault ==
    \E r \in RunIds :
        \/ NoSocketAtStart(r)
        \/ NoSocketInHandler(r)

\* The server with every fault of a run: stages that throw, database writes
\* that reject, and a notifier that throws.
NextFaults ==
    \/ UploadRequest
    \/ Pipeline
    \/ Outage
    \/ SocketFault

SpecFaults == Init /\ [][NextFaults]_vars

\* The positions of a call of processVideo whose promise is pending or has
\* resolved.
RunPcs ==
    {"idle", "findById", "download", "probe", "thumbnail", "analyze",
     "failUpdate", "done"} \cup SavePcs

\* C27: the promise returned by processVideo never rejects: every error
\* thrown by a stage, by a persistence write or by the notifier moves the run
\* into its catch block, and the catch block always ends with the function
\* returning, also when its own update rejects or its getIO throws; so the
\* un-awaited call of the upload handler never yields an unhandled rejection.
C27_NeverRejects ==
    /\ [](\A r \in RunIds : runs[r].pc \in RunPcs)
    /\ [][\A r \in RunIds :
            runs'[r] # runs[r] =>
                /\ runs'[r].threw # runs[r].threw
                      => runs'[r].pc = "failUpdate"
                /\ runs[r].pc = "failUpdate" => runs'[r].pc = "done"
      ]_vars

\* getIO threw in the try block and again in the catch block: the run has
\* ended with its record failed and no event published.
C27_Witness ==
    \E r \in RunIds :
        /\ runs[r].pc = "done"
        /\ runs[r].threw = "notifier"
        /\ published[r] = <<>>
        /\ Exists(runs[r].videoId)
        /\ store[runs[r].videoId].status = "failed"

====
